---- MODULE Spec2Model ----
(***************************************************************************)
(* A model of the tool-routing layer of the assistant: the TripAdvisor     *)
(* reviews adapter and the venue name search (app/engine/tools), the index *)
(* store with its time-expiring storage-context cache (app/engine/index.py)*)
(* and the offline index build (app/engine/generate.py), the file loaders  *)
(* (app/engine/loaders), the web search and venue-management adapters, the *)
(* chat engine factory (app/engine/engine.py) and the menu extraction      *)
(* (app/engine/menu_processor.py).                                         *)
(*                                                                         *)
(* Python strings are modelled as sequences of one-character strings, so   *)
(* that str.isdigit() and len() are computed character by character.       *)
(***************************************************************************)
EXTENDS Integers, Sequences, FiniteSets, TLC

VARIABLES
    apiKey,       \* TRIPADVISOR_API_KEY is set in the process environment
    resolved,     \* TripAdvisor IDs returned so far by search_venues_by_name
    lastCall,     \* the most recent tool call of the agent and its outcome
    rejections,   \* per class of malformed ID: what the latest such call reported
    storageDir,   \* the STORAGE_DIR environment variable (Optional)
    now,          \* the cache timer (time.monotonic), in seconds
    cache,        \* the TTLCache behind get_storage_context, in LRU order
    disk,         \* per directory: the persisted index (Optional)
    loads,        \* per directory: the latest StorageContext load (Optional)
    lastIndex,    \* the most recent index-store operation and its outcome
    documents,    \* the documents the loader delivered to the last build
    lastBuild,    \* the most recent generate_datasource run
    dataDir,      \* the files of DATA_DIR, in the order os.walk lists them
    lastLoad,     \* the most recent call of the loader and its outcome
    bingKey,      \* BING_SEARCH_KEY is set in the process environment
    lastTool,     \* the most recent adapter tool invocation and its outcome
    lastEngine,   \* the most recent get_chat_engine call and its outcome
    visited_urls, \* MenuProcessor.visited_urls of the processor in use
    to_visit,     \* the local to_visit of the running _crawl_website
    menu_pages,   \* the local menu_pages of the running _crawl_website
    menuRun       \* the run of the menu extraction and where it stands

vars == <<apiKey, resolved, lastCall, rejections, storageDir, now, cache,
          disk, loads, lastIndex, documents, lastBuild, dataDir, lastLoad,
          bingKey, lastTool, lastEngine, visited_urls, to_visit, menu_pages,
          menuRun>>

reviewVars == <<apiKey, resolved, lastCall, rejections>>
indexVars  == <<storageDir, now, cache, disk, loads, lastIndex>>
buildVars  == <<documents, lastBuild>>
loaderVars == <<dataDir, lastLoad>>
\* the state of the components added after the index store
adapterVars == <<bingKey, lastTool>>
engineVars == <<lastEngine>>
menuVars == <<visited_urls, to_visit, menu_pages, menuRun>>
otherVars  == <<loaderVars, adapterVars, engineVars, menuVars>>

(***************************************************************************)
(* Bounds of the model.                                                    *)
(***************************************************************************)
MaxIdLen   == 11  \* longest location_id tried
MaxReviews == 2   \* longest list of reviews in a response body
MaxVenues  == 2   \* longest list of venues in a search response body
MaxTime    == 600 \* the timer stops advancing here (index store)
MaxCacheTime == 300 \* the timer stops advancing here (direct cache calls)
NumDirs    == 21  \* distinct persist_dir values passed to get_storage_context
MaxDocs    == 2   \* most documents the loader delivers
MaxRows    == 2   \* most data lines of a CSV file
MaxFiles   == 2   \* most files of the data directory
SitePages  == 52  \* pages of the larger of the two restaurant websites
MaxRestaurants == 2 \* longest list of restaurants given to a menu run

(***************************************************************************)
(* Strings.                                                                *)
(***************************************************************************)
\* the digits among the characters the model uses (all of them ASCII)
Digits == {"0", "1", "2", "3", "4", "5", "6", "7", "8", "9"}

Rep(c, n) == [i \in 1..n |-> c]

\* str.isdigit(): non-empty and every character a digit
isdigit(s) == Len(s) > 0 /\ \A i \in 1..Len(s) : s[i] \in Digits

VistaJardins == <<"V", "i", "s", "t", "a", " ", "J", "a", "r", "d", "i", "n", "s">>

\* the location_id arguments an agent may pass: digit strings of every
\* length, strings with a letter at either end, and a venue name
LocationIds ==
    {Rep("7", n) : n \in 0..MaxIdLen}
    \cup {Rep("7", n) \o <<"V">> : n \in 0..(MaxIdLen - 1)}
    \cup {<<"V">> \o Rep("7", n) : n \in 1..(MaxIdLen - 1)}
    \cup {VistaJardins}

(***************************************************************************)
(* HTTP: what one requests.get can produce.  status 0 stands for a         *)
(* transport failure (no response at all); body "garbage" for a 200 whose  *)
(* body is not the expected JSON.                                          *)
(***************************************************************************)
SeqsUpTo(S, n) == UNION {[1..k -> S] : k \in 0..n}

ErrorStatuses == {401, 404, 429, 500}

\* one element of the reviews endpoint's "data" list; valid = FALSE stands
\* for a record ReviewData(...) refuses
RawReviews == {[rating |-> 5, valid |-> TRUE],
               [rating |-> 2, valid |-> TRUE],
               [rating |-> 0, valid |-> FALSE]}

NoAnswer == [status |-> 0, body |-> "none", data |-> <<>>]

ReviewsHttp ==
    {NoAnswer}
    \cup {[status |-> s, body |-> "error", data |-> <<>>] : s \in ErrorStatuses}
    \cup {[status |-> 200, body |-> "garbage", data |-> <<>>]}
    \cup {[status |-> 200, body |-> "json", data |-> d] :
             d \in SeqsUpTo(RawReviews, MaxReviews)}

(***************************************************************************)
(* get_tripadvisor_reviews                                                 *)
(***************************************************************************)
\* a format check that is satisfied by one digit anywhere
BadFormat_anyDigit(location_id) ==
    ~(\E i \in 1..Len(location_id) : location_id[i] \in Digits)

\* tripadvisor.py:40  "if not location_id.isdigit()"
BadFormat(location_id) == ~isdigit(location_id)

\* a length check whose lower bound is one short
BadLength_min4(location_id) == Len(location_id) < 4 \/ Len(location_id) > 10

\* a length check without its upper bound
BadLength_noUpper(location_id) == Len(location_id) < 5

\* tripadvisor.py:53  "if len(location_id) < 5 or len(location_id) > 10"
BadLength(location_id) == Len(location_id) < 5 \/ Len(location_id) > 10

\* a failure response that a caller can tell from an empty success
EmptyResponse_marked(location_id) ==
    [location_id |-> location_id, reviews |-> <<>>,
     average_rating |-> -1, total_reviews |-> 0]

\* the response every failure path returns (lines 45-50, 59-64, 69-74,
\* 130-135, 138-143); average_rating is kept in tenths
EmptyResponse(location_id) ==
    [location_id |-> location_id, reviews |-> <<>>,
     average_rating |-> 0, total_reviews |-> 0]

\* a parser that keeps every record
ParseReviews_keepAll(data) == [i \in 1..Len(data) |-> data[i].rating]

\* lines 90-107: the ratings of the records that parse, in order
RECURSIVE ParseReviews(_)
ParseReviews(data) ==
    IF data = <<>> THEN <<>>
    ELSE IF Head(data).valid
         THEN <<Head(data).rating>> \o ParseReviews(Tail(data))
         ELSE ParseReviews(Tail(data))

RECURSIVE SumSeq(_)
SumSeq(s) == IF s = <<>> THEN 0 ELSE Head(s) + SumSeq(Tail(s))

\* round(total / n, 1) in tenths, ties to even (no tie occurs for n <= 3)
RoundTenths(total, n) ==
    LET q == (10 * total) \div n
        r == (10 * total) % n
    IN  IF 2 * r < n THEN q
        ELSE IF 2 * r > n THEN q + 1
        ELSE IF q % 2 = 0 THEN q ELSE q + 1

\* lines 110-117
SuccessResponse(location_id, data) ==
    LET reviews == ParseReviews(data)
    IN  [location_id |-> location_id, reviews |-> reviews,
         average_rating |-> IF reviews = <<>> THEN 0
                            ELSE RoundTenths(SumSeq(reviews), Len(reviews)),
         total_reviews |-> Len(reviews)]

\* a handler that does not look at the status code
ErrorMsg_unclassified(http) == "generic"

\* lines 120-127: the message logged for a RequestException
ErrorMsg(http) ==
    IF http.status = 401 THEN "auth"
    ELSE IF http.status = 404 THEN "not_found"
    ELSE IF http.status = 429 THEN "rate_limit"
    ELSE "generic"

\* requests.get raises on a transport failure (line 83 / chinchin_api.py:144),
\* raise_for_status on a 4xx or 5xx answer (line 84 / chinchin_api.py:149)
RaisesRequestException(http) ==
    http.status = 0 \/ (http.status >= 400 /\ http.status < 600)

Outcome(exit, log, requests, resp) ==
    [exit |-> exit, log |-> log, requests |-> requests, raised |-> FALSE,
     resp |-> <<resp>>]

\* the two validations in the opposite order
get_tripadvisor_reviews_lengthFirst(location_id, key, http) ==
    IF BadLength(location_id)
    THEN Outcome("invalid_length", "length", 0, EmptyResponse(location_id))
    ELSE IF BadFormat(location_id)
    THEN Outcome("invalid_format", "format", 0, EmptyResponse(location_id))
    ELSE IF ~key
    THEN Outcome("missing_key", "config", 0, EmptyResponse(location_id))
    ELSE IF RaisesRequestException(http)
    THEN Outcome("request_exception", ErrorMsg(http), 1,
                 EmptyResponse(location_id))
    ELSE IF http.body # "json"
    THEN Outcome("unexpected", "unexpected", 1, EmptyResponse(location_id))
    ELSE Outcome("success", "none", 1, SuccessResponse(location_id, http.data))

\* lines 38-143.  key: TRIPADVISOR_API_KEY is set; http: what requests.get
\* produces if it is called
get_tripadvisor_reviews(location_id, key, http) ==
    IF BadFormat(location_id)
    THEN Outcome("invalid_format", "format", 0, EmptyResponse(location_id))
    ELSE IF BadLength(location_id)
    THEN Outcome("invalid_length", "length", 0, EmptyResponse(location_id))
    ELSE IF ~key
    THEN Outcome("missing_key", "config", 0, EmptyResponse(location_id))
    ELSE IF RaisesRequestException(http)
    THEN Outcome("request_exception", ErrorMsg(http), 1,
                 EmptyResponse(location_id))
    ELSE IF http.body # "json"
    THEN Outcome("unexpected", "unexpected", 1, EmptyResponse(location_id))
    ELSE Outcome("success", "none", 1, SuccessResponse(location_id, http.data))

(***************************************************************************)
(* ChinchinAPITool.search_venues_by_name                                   *)
(***************************************************************************)
\* one element of the backend's answer; tripadvisor_id is Optional (a
\* sequence of length 0 or 1); valid = FALSE stands for a record
\* VenueSearchResult(...) refuses
RawVenues == {[tripadvisor_id |-> <<Rep("7", 6)>>, valid |-> TRUE],
              [tripadvisor_id |-> <<Rep("7", 8)>>, valid |-> TRUE],
              [tripadvisor_id |-> <<>>, valid |-> TRUE],
              [tripadvisor_id |-> <<Rep("7", 6)>>, valid |-> FALSE]}

SearchHttp ==
    {NoAnswer}
    \cup {[status |-> s, body |-> "error", data |-> <<>>] : s \in ErrorStatuses}
    \cup {[status |-> 200, body |-> "garbage", data |-> <<>>]}
    \cup {[status |-> 200, body |-> "json", data |-> d] :
             d \in SeqsUpTo(RawVenues, MaxVenues)}

SearchNames == {VistaJardins, <<"B", "a", "r">>}

\* chinchin_api.py:151-169: the tripadvisor_id of each venue that parses
RECURSIVE ParseVenues(_)
ParseVenues(data) ==
    IF data = <<>> THEN <<>>
    ELSE IF Head(data).valid
         THEN <<Head(data).tripadvisor_id>> \o ParseVenues(Tail(data))
         ELSE ParseVenues(Tail(data))

\* chinchin_api.py:132-178
search_venues_by_name(name, http) ==
    IF RaisesRequestException(http)
    THEN [exit |-> "request_exception", requests |-> 1, raised |-> FALSE,
          venues |-> <<>>]
    ELSE IF http.body # "json"
    THEN [exit |-> "unexpected", requests |-> 1, raised |-> FALSE,
          venues |-> <<>>]
    ELSE [exit |-> "success", requests |-> 1, raised |-> FALSE,
          venues |-> ParseVenues(http.data)]

\* the TripAdvisor IDs a list of venues carries
VenueIds(venues) ==
    {venues[i][1] : i \in {j \in 1..Len(venues) : venues[j] # <<>>}}

(***************************************************************************)
(* The agent: AgentRunner picks the next tool and its argument; nothing in *)
(* the code constrains the choice (engine.py:42-74).                       *)
(***************************************************************************)
\* the kind of malformed ID, as the adapter's contract words it
\* (tripadvisor.py:31: "a numeric ID between 5-10 digits")
NonNumeric(s) == s = <<>> \/ \E i \in 1..Len(s) : s[i] \notin Digits
WrongLength(s) == ~NonNumeric(s) /\ (Len(s) < 5 \/ Len(s) > 10)
Malformed(s) == NonNumeric(s) \/ WrongLength(s)
IdClass(s) == IF NonNumeric(s) THEN "non_numeric"
              ELSE IF WrongLength(s) THEN "wrong_length"
              ELSE "well_formed"

\* what a call hands to its caller, without the echoed location_id
Reported(o) ==
    [raised |-> o.raised, log |-> o.log,
     value |-> [r \in 1..Len(o.resp) |->
                   [reviews |-> o.resp[r].reviews,
                    average_rating |-> o.resp[r].average_rating,
                    total_reviews |-> o.resp[r].total_reviews]]]

NoCall ==
    [tool |-> "none", arg |-> <<>>, exit |-> "none", log |-> "none",
     requests |-> 0, raised |-> FALSE, resp |-> <<>>, venues |-> <<>>]

InitReviews ==
    /\ apiKey \in BOOLEAN
    /\ resolved = {}
    /\ lastCall = NoCall
    /\ rejections = [c \in {"non_numeric", "wrong_length"} |-> <<>>]

\* the agent calls the get_tripadvisor_reviews tool (tripadvisor.py:166-185)
\* The endpoint answers only when a request reaches it.
ReviewsCall ==
    \E location_id \in LocationIds :
      \E http \in IF get_tripadvisor_reviews(location_id, apiKey, NoAnswer).requests = 0
                  THEN {NoAnswer} ELSE ReviewsHttp :
        LET o == get_tripadvisor_reviews(location_id, apiKey, http)
            c == IdClass(location_id)
        IN  /\ lastCall' = [tool |-> "get_tripadvisor_reviews",
                            arg |-> location_id, exit |-> o.exit,
                            log |-> o.log, requests |-> o.requests,
                            raised |-> o.raised, resp |-> o.resp,
                            venues |-> <<>>]
            /\ rejections' = IF c = "well_formed" THEN rejections
                             ELSE [rejections EXCEPT ![c] = <<Reported(o)>>]
            /\ UNCHANGED <<apiKey, resolved>>
            /\ UNCHANGED <<indexVars, buildVars>>
            /\ UNCHANGED otherVars

\* the agent calls the search_venues_by_name tool (chinchin_api.py:590-592)
SearchCall ==
    \E name \in SearchNames, http \in SearchHttp :
        LET o == search_venues_by_name(name, http)
        IN  /\ lastCall' = [tool |-> "search_venues_by_name", arg |-> name,
                            exit |-> o.exit, log |-> "none",
                            requests |-> o.requests, raised |-> o.raised,
                            resp |-> <<>>, venues |-> o.venues]
            /\ resolved' = resolved \cup VenueIds(o.venues)
            /\ UNCHANGED <<apiKey, rejections>>
            /\ UNCHANGED <<indexVars, buildVars>>
            /\ UNCHANGED otherVars

NextReviews == ReviewsCall \/ SearchCall

(***************************************************************************)
(* Storage directories (index.py)                                          *)
(***************************************************************************)
IndexTypes == {"general", "venue"}

\* index.py:26-31.  A path is the pair os.path.join makes of base and leaf.
get_storage_path(index_type, env) ==
    LET base_dir == IF env = <<>> THEN "storage" ELSE env[1]
    IN  IF index_type = "venue" THEN <<base_dir, "venue">>
        ELSE <<base_dir, "general">>

StorageDirValues == {<<>>, <<"idx">>}

TypeDirs == {get_storage_path(t, e) : t \in IndexTypes, e \in StorageDirValues}

\* other directories a caller of get_storage_context may name
CacheDir(n) == <<"dirs", ToString(n)>>
CacheDirs == {CacheDir(n) : n \in 1..NumDirs}

AllDirs == TypeDirs \cup CacheDirs

(***************************************************************************)
(* cachetools.TTLCache(maxsize=20, ttl=300) under @cached (index.py:54-57) *)
(* The cache is the sequence of its entries in the order of its links      *)
(* (least recently used first); each entry carries its expiry time.        *)
(***************************************************************************)
ttl == 300
maxsize == 20

TimeStep == ttl \div 2

\* the key function of the decorator (index.py:56)
CacheKey(persist_dir) == <<"storage_context", persist_dir>>

\* an entry that is still served at the instant it expires
Live_inclusive(e, t) == t <= e.expires

\* TTLCache: "self.timer() < link.expires"
Live(e, t) == t < e.expires

HasKey(c, k) == \E i \in 1..Len(c) : c[i].key = k

Entry(c, k) == c[CHOOSE i \in 1..Len(c) : c[i].key = k]

\* TTLCache.expire(time): drop every entry whose time is up
expire(c, t) == SelectSeq(c, LAMBDA e : Live(e, t))

\* TTLCache.__getlink: a lookup moves the key to the end of the links
MoveToEnd(c, k) ==
    IF HasKey(c, k)
    THEN SelectSeq(c, LAMBDA e : e.key # k) \o <<Entry(c, k)>>
    ELSE c

\* TTLCache.__getitem__ finds the key: present and not expired
CacheHit(c, k, t) == HasKey(c, k) /\ Live(Entry(c, k), t)

\* a store that never makes room
CacheSetItem_noEvict(c, k, v, t) ==
    expire(SelectSeq(c, LAMBDA e : e.key # k), t)
        \o <<[key |-> k, value |-> v, expires |-> t + ttl]>>

\* Cache.__setitem__ under TTLCache.__setitem__: expire, make room by
\* popitem (the least recently used entry), store, link at the end
CacheSetItem(c, k, v, t) ==
    LET c1 == expire(c, t)
        c2 == SelectSeq(c1, LAMBDA e : e.key # k)
        c3 == IF Len(c2) + 1 > maxsize THEN Tail(c2) ELSE c2
    IN  c3 \o <<[key |-> k, value |-> v, expires |-> t + ttl]>>

\* StorageContext.from_defaults(persist_dir) (index.py:59): a new context
\* object holding what the directory holds at the time of the call
LoadContext(persist_dir, d, serial) ==
    [dir |-> persist_dir, serial |-> serial, docs |-> d[persist_dir][1]]

\* how many contexts have been loaded for the directory
LoadCount(ld, persist_dir) ==
    IF ld[persist_dir] = <<>> THEN 0 ELSE ld[persist_dir][1].value.serial

\* the decorator left out: every call loads
get_storage_context_uncached(c, persist_dir, d, ld, t) ==
    IF d[persist_dir] = <<>>
    THEN [cache |-> c, value |-> <<>>, loaded |-> FALSE, raised |-> TRUE]
    ELSE [cache |-> c,
          value |-> <<LoadContext(persist_dir, d,
                                  LoadCount(ld, persist_dir) + 1)>>,
          loaded |-> TRUE, raised |-> FALSE]

\* the wrapper @cached puts around get_storage_context (index.py:54-59):
\* look the key up; on a miss call the function and store its result.
\* The function raises when the directory holds no persisted index, and
\* nothing is stored then.
get_storage_context(c, persist_dir, d, ld, t) ==
    LET k == CacheKey(persist_dir)
    IN  IF CacheHit(c, k, t)
        THEN [cache |-> MoveToEnd(c, k), value |-> <<Entry(c, k).value>>,
              loaded |-> FALSE, raised |-> FALSE]
        ELSE IF d[persist_dir] = <<>>
        THEN [cache |-> MoveToEnd(c, k), value |-> <<>>, loaded |-> FALSE,
              raised |-> TRUE]
        ELSE LET v == LoadContext(persist_dir, d, LoadCount(ld, persist_dir) + 1)
             IN  [cache |-> CacheSetItem(MoveToEnd(c, k), k, v, t),
                  value |-> <<v>>, loaded |-> TRUE, raised |-> FALSE]

\* get_index without the check that the directory exists
get_index_noCheck(c, index_type, env, d, ld, t) ==
    get_storage_context(c, get_storage_path(index_type, env), d, ld, t)

\* index.py:34-51: None when the directory does not exist, else the index
\* load_index_from_storage makes of the (cached) storage context
get_index(c, index_type, env, d, ld, t) ==
    LET storage_dir == get_storage_path(index_type, env)
    IN  IF d[storage_dir] = <<>>
        THEN [cache |-> c, value |-> <<>>, loaded |-> FALSE, raised |-> FALSE]
        ELSE get_storage_context(c, storage_dir, d, ld, t)

\* the latest load of each directory, replaced when the call loaded
RecordLoad(ld, persist_dir, r, t) ==
    IF r.loaded
    THEN [ld EXCEPT ![persist_dir] = <<[time |-> t, value |-> r.value[1]]>>]
    ELSE ld

\* an index-store operation and its outcome.  existed: the directory
\* existed when the operation ran; prior: the latest load of the directory
\* made before the operation; result: what the operation returned
IndexOp(op, dir, t, existed, prior, loaded, raised, result) ==
    [op |-> op, dir |-> dir, time |-> t, existed |-> existed,
     prior |-> prior, loaded |-> loaded, raised |-> raised, result |-> result]

NoIndexOp == IndexOp("none", <<>>, 0, FALSE, <<>>, FALSE, FALSE, <<>>)

InitIndex ==
    /\ storageDir \in StorageDirValues
    /\ now = 0
    /\ cache = <<>>
    /\ disk = [d \in AllDirs |-> IF d \in CacheDirs THEN << <<>> >> ELSE <<>>]
    /\ loads = [d \in AllDirs |-> <<>>]
    /\ lastIndex = NoIndexOp

(***************************************************************************)
(* Documents and the index build (generate.py)                             *)
(***************************************************************************)
\* metadata.get("type") of a document: "none" when the key is missing
DocTypes == {"row", "text", "none"}

\* what the loader creates: document i of the list has id i
LoaderDoc(i, type) == [id |-> i, type |-> type, private |-> "unset"]

LoaderOutputs ==
    UNION {{[i \in 1..k |-> LoaderDoc(i, f[i])] : f \in [1..k -> DocTypes]} :
              k \in 0..MaxDocs}

\* generate.py:28-29: every document is marked public, in place
MarkPublic(docs) == [i \in 1..Len(docs) |-> [docs[i] EXCEPT !.private = "false"]]

\* a build that persists under the base directory of both types
generate_index_bothTypes(d, docs, index_type, env) ==
    [p \in DOMAIN d |->
        IF \E t \in IndexTypes : p = get_storage_path(t, env)
        THEN <<MarkPublic(docs)>> ELSE d[p]]

\* generate.py:23-46: build the index of the documents and persist it to
\* the type's directory, replacing what was there
generate_index(d, docs, index_type, env) ==
    [d EXCEPT ![get_storage_path(index_type, env)] = <<MarkPublic(docs)>>]

\* a general set that is not filtered
general_docs_all(docs) == docs

\* generate.py:62-63
venue_docs(docs) == SelectSeq(docs, LAMBDA doc : doc.type = "row")
general_docs(docs) == SelectSeq(docs, LAMBDA doc : doc.type # "row")

\* a build of both indices that does not look whether a kind is empty
generate_datasource_unguarded(d, docs, index_type, env) ==
    IF index_type # <<>>
    THEN generate_index(d, docs, index_type[1], env)
    ELSE generate_index(generate_index(d, venue_docs(docs), "venue", env),
                        general_docs(docs), "general", env)

\* generate.py:49-68.  index_type is Optional.
generate_datasource(d, docs, index_type, env) ==
    IF index_type # <<>>
    THEN generate_index(d, docs, index_type[1], env)
    ELSE LET d1 == IF venue_docs(docs) # <<>>
                   THEN generate_index(d, venue_docs(docs), "venue", env)
                   ELSE d
         IN  IF general_docs(docs) # <<>>
             THEN generate_index(d1, general_docs(docs), "general", env)
             ELSE d1

\* the types generate_datasource builds
BuiltTypes(docs, index_type) ==
    IF index_type # <<>> THEN {index_type[1]}
    ELSE {t \in {"venue"} : venue_docs(docs) # <<>>}
         \cup {t \in {"general"} : general_docs(docs) # <<>>}

\* a marking that replaces the metadata of the document
DocsAfter_replaceMetadata(docs, index_type) ==
    [i \in 1..Len(docs) |-> [docs[i] EXCEPT !.private = "false", !.type = "none"]]

\* the loader's documents after the run: generate_index has marked the
\* ones it was given (generate.py:28-29 writes into the Document objects)
DocsAfter(docs, index_type) ==
    [i \in 1..Len(docs) |->
        IF index_type # <<>>
           \/ (docs[i].type = "row" /\ "venue" \in BuiltTypes(docs, index_type))
           \/ (docs[i].type # "row" /\ "general" \in BuiltTypes(docs, index_type))
        THEN [docs[i] EXCEPT !.private = "false"]
        ELSE docs[i]]

InitBuild ==
    /\ documents = <<>>
    /\ lastBuild = [ran |-> FALSE, index_type |-> <<>>, loaded |-> <<>>,
                    built |-> {}]

(***************************************************************************)
(* The document loader (loaders/csv_loader.py, loaders/file.py)            *)
(***************************************************************************)
\* the column names of the CSV files of the model
Header == <<"OutletName", "city">>

\* values of the first field of a data line
FirstFields == {3, 5}

\* a data line: its first field, and whether it has one field more than
\* the header has names (a trailing delimiter, an unnamed leading column)
DataLines == [first : FirstFields, extra : BOOLEAN]

\* the number of fields of a data line
Fields(line) == IF line.extra THEN Len(Header) + 1 ELSE Len(Header)

\* what a CSV file holds: readable is FALSE for a file pandas cannot open
\* or that has no header line
CsvContents ==
    {[readable |-> FALSE, lines |-> <<>>]}
    \cup [readable : {TRUE}, lines : SeqsUpTo(DataLines, MaxRows)]

\* pandas.read_csv(file_path) with its defaults (csv_loader.py:18).  The
\* first data line fixes the width of the table; a later line with more
\* fields is a ParserError, one with fewer is padded.  When the table is
\* one field wider than the header, the first column becomes the index
\* (index_col=None); otherwise the index is RangeIndex(0..N-1).
read_csv(content) ==
    LET lines == content.lines
        width == IF lines = <<>> THEN Len(Header) ELSE Fields(lines[1])
    IN  IF ~content.readable
           \/ \E i \in 1..Len(lines) : Fields(lines[i]) > width
        THEN [raised |-> TRUE, index |-> <<>>]
        ELSE [raised |-> FALSE,
              index |-> [i \in 1..Len(lines) |->
                            IF width > Len(Header) THEN lines[i].first
                            ELSE i - 1]]

\* a file of the data directory: <<stem, ext>> is its base name
CsvFile(stem, content) ==
    [stem |-> stem, ext |-> "csv", content |-> content, extract |-> "ok"]

\* a file that is not a CSV file, and what its extraction does
OtherFile(stem, extract) ==
    [stem |-> stem, ext |-> "pdf",
     content |-> [readable |-> TRUE, lines |-> <<>>], extract |-> extract]

\* os.path.splitext(os.path.basename(file_path))[0] (csv_loader.py:21)
file_name(file) == file.stem

\* a Document: idx is Optional, type is "none" when the key is missing
Document(src, idx, type) == [src |-> src, idx |-> idx, type |-> type]

\* csv_loader.py:11-81: one Document per row of the frame, idx being the
\* index label iterrows() yields; any exception is logged and re-raised
process_csv_file(file) ==
    LET df == read_csv(file.content)
    IN  [raised |-> df.raised,
         documents |-> [i \in 1..Len(df.index) |->
                           Document(file_name(file), <<df.index[i]>>, "row")]]

\* what the extraction of a file that is not a CSV file may do
Extractions == {"ok", "extract_error", "import_error"}

\* SimpleDirectoryReader(input_files=all_files, ...).load_data()
\* (file.py:64-70) with raise_on_error left at its default: a file whose
\* reader raises is reported and skipped; an ImportError is raised.
load_data(files) ==
    LET loaded == SelectSeq(files, LAMBDA f : f.extract = "ok")
    IN  [raised |-> \E i \in 1..Len(files) : files[i].extract = "import_error",
         documents |-> [i \in 1..Len(loaded) |->
                           Document(loaded[i].stem, <<>>, "none")]]

\* the concatenation of the documents of the files, in order
RECURSIVE CsvDocuments(_)
CsvDocuments(files) ==
    IF files = <<>> THEN <<>>
    ELSE process_csv_file(Head(files)).documents \o CsvDocuments(Tail(files))

\* file.py:38-81: the files that are not CSV go through the directory
\* reader, then each CSV file through process_csv_file; any exception is
\* logged and re-raised, and nothing is returned
get_file_documents(dir) ==
    LET all_files == SelectSeq(dir, LAMBDA f : f.ext # "csv")
        csv_files == SelectSeq(dir, LAMBDA f : f.ext = "csv")
        raised == \/ (all_files # <<>> /\ load_data(all_files).raised)
                  \/ \E i \in 1..Len(csv_files) :
                         process_csv_file(csv_files[i]).raised
    IN  [raised |-> raised,
         documents |-> IF raised THEN <<>>
                       ELSE load_data(all_files).documents
                            \o CsvDocuments(csv_files)]

\* the files a data directory may hold; the k-th file is named by k
FilesAt(k) ==
    {CsvFile(ToString(k), c) : c \in CsvContents}
    \cup {OtherFile(ToString(k), e) : e \in Extractions}

NoLoad ==
    [op |-> "none", input |-> <<>>, raised |-> FALSE, documents |-> <<>>]

InitLoader ==
    /\ dataDir = <<>>
    /\ lastLoad = NoLoad

(***************************************************************************)
(* The external adapters as tools (bing_search.py, chinchin_api.py,        *)
(* tripadvisor.py).  A result tells what one invocation did: the HTTP      *)
(* requests it issued, the exception it raised (exc, with the parts of its *)
(* message in msg) or the kind of value it returned (for an error dict,    *)
(* msg holds the text of its error entry).                                 *)
(***************************************************************************)
Returns(requests, kind) ==
    [requests |-> requests, raised |-> FALSE, exc |-> "none", msg |-> <<>>,
     kind |-> kind]

Raises(requests, exc, msg) ==
    [requests |-> requests, raised |-> TRUE, exc |-> exc, msg |-> msg,
     kind |-> "none"]

\* raise_for_status() raises for a 4xx or 5xx answer
IsErrorStatus(http) == http.status >= 400 /\ http.status < 600

\* what the upstream of an adapter may do with one request: no answer at
\* all, an error status, a 200 whose body is not JSON, a 200 with JSON
UpstreamErrors == {400, 401, 403, 404, 429, 500, 503}

Upstream ==
    {NoAnswer}
    \cup {[status |-> st, body |-> "error", data |-> <<>>] : st \in UpstreamErrors}
    \cup {[status |-> 200, body |-> "garbage", data |-> <<>>]}
    \cup {[status |-> 200, body |-> "json", data |-> <<>>]}

\* response.json() on a body that is not JSON raises
\* requests.exceptions.JSONDecodeError, which is a RequestException from
\* requests 2.27 on and only a ValueError before; both builds are modelled.
RequestsBuilds == {"json_error_is_request_exception", "json_error_is_value_error"}

\* bing_search.py:63-69: the message chosen in the except clause
BingErrorMsg(http) ==
    IF http.status = 401 THEN "invalid_key"
    ELSE IF http.status = 403 THEN "access_denied"
    ELSE IF http.status = 429 THEN "rate_limit"
    ELSE "str(e)"

\* a search that asks the service before it looks for its key
bing_search_requestFirst(key, http, build) ==
    IF ~key THEN Raises(1, "ValueError", <<"BING_SEARCH_KEY environment variable is not set">>)
    ELSE Returns(1, "results")

\* bing_search.py:14-71.  When requests.get itself raises, the name
\* response is not bound when line 64 reads it: UnboundLocalError.
bing_search(key, http, build) ==
    IF ~key
    THEN Raises(0, "ValueError", <<"BING_SEARCH_KEY environment variable is not set">>)
    ELSE IF http.status = 0
    THEN Raises(1, "UnboundLocalError", <<"response">>)
    ELSE IF IsErrorStatus(http)
    THEN Raises(1, "Exception", <<"Error performing Bing search", BingErrorMsg(http)>>)
    ELSE IF http.body # "json"
    THEN IF build = "json_error_is_request_exception"
         THEN Raises(1, "Exception", <<"Error performing Bing search", BingErrorMsg(http)>>)
         ELSE Raises(1, "JSONDecodeError", <<"str(e)">>)
    ELSE Returns(1, "results")

\* the shape shared by the methods that catch RequestException and then
\* Exception, returning the same empty value for both
GetOrEmpty(http, empty, full) ==
    IF RaisesRequestException(http) \/ http.body # "json"
    THEN Returns(1, empty)
    ELSE Returns(1, full)

\* chinchin_api.py:12-24: the members in definition order
OccasionType ==
    << [name |-> "SPECIAL_OCCASION", value |-> "Special Occasion"],
       [name |-> "DINNER_OUT", value |-> "Dinner Out"],
       [name |-> "DATE_NIGHT", value |-> "Date Night / Romantic"],
       [name |-> "CHILLED_DRINK", value |-> "Chilled Drink"],
       [name |-> "QUICK_BEER", value |-> "Quick Beer"],
       [name |-> "AFTER_WORK", value |-> "After Work"],
       [name |-> "FAMILY_GET_TOGETHER", value |-> "Family get together"],
       [name |-> "GIRLS_NIGHT", value |-> "Girls Night"],
       [name |-> "BIG_NIGHT_OUT", value |-> "Big Night Out"],
       [name |-> "LARGE_GROUPS", value |-> "Large Groups"],
       [name |-> "BRUNCH", value |-> "Brunch"],
       [name |-> "FOOTBALL_GET_TOGETHER", value |-> "Football Get-Together"] >>

\* the strings a caller may pass as occasion_type: every member name,
\* every value, and strings that are neither
OccasionInputs ==
    {OccasionType[i].name : i \in DOMAIN OccasionType}
    \cup {OccasionType[i].value : i \in DOMAIN OccasionType}
    \cup {"", "brunch", "special occasion", "Lunch", "OccasionType.BRUNCH"}

\* chinchin_api.py:107-110: next(...) over the members, None when no
\* member has the value
OccasionByValue(occasion_type) ==
    LET hits == {i \in DOMAIN OccasionType : OccasionType[i].value = occasion_type}
    IN  IF hits = {} THEN <<>>
        ELSE <<OccasionType[CHOOSE i \in hits : \A j \in hits : i <= j]>>

\* chinchin_api.py:113: OccasionType[occasion_type], a KeyError (here the
\* empty sequence) when no member has the name
OccasionByName(occasion_type) ==
    LET hits == {i \in DOMAIN OccasionType : OccasionType[i].name = occasion_type}
    IN  IF hits = {} THEN <<>>
        ELSE <<OccasionType[CHOOSE i \in hits : TRUE]>>

\* a lookup that knows the values only
OccasionEnum_valueOnly(occasion_type) == OccasionByValue(occasion_type)

\* chinchin_api.py:104-117: the member a string is converted to, by
\* value first and by name second; empty when lines 115-117 return []
OccasionEnum(occasion_type) ==
    IF OccasionByValue(occasion_type) # <<>>
    THEN OccasionByValue(occasion_type)
    ELSE OccasionByName(occasion_type)

\* chinchin_api.py:119-122: what the request path ends in, when a request
\* is issued
OccasionRequested(occasion_type) ==
    IF OccasionEnum(occasion_type) = <<>> THEN <<>>
    ELSE <<OccasionEnum(occasion_type)[1].value>>

\* chinchin_api.py:80-130 (lines 115-117 return [] before any request
\* when the string is no OccasionType)
search_venues_by_occasion(occasion_type, http) ==
    IF OccasionEnum(occasion_type) = <<>> THEN Returns(0, "empty_list")
    ELSE GetOrEmpty(http, "empty_list", "list")

\* chinchin_api.py:180-215
get_occasion_suggestions(http) == GetOrEmpty(http, "empty_list", "list")

\* chinchin_api.py:217-251
get_venue_menu(http) == GetOrEmpty(http, "empty_list", "list")

\* chinchin_api.py:253-306
search_menu_items(http) == GetOrEmpty(http, "empty_list", "list")

\* statistics that let the HTTP error out
get_menu_stats_raising(http) ==
    IF RaisesRequestException(http) THEN Raises(1, "HTTPError", <<"str(e)">>)
    ELSE GetOrEmpty(http, "empty_dict", "dict")

\* chinchin_api.py:308-334
get_menu_stats(http) == GetOrEmpty(http, "empty_dict", "dict")

\* chinchin_api.py:336-365
get_price_aggregations(http) == GetOrEmpty(http, "empty_dict", "dict")

\* chinchin_api.py:368-397: only RequestException is caught
get_venue_reservations(http, build) ==
    IF RaisesRequestException(http) THEN Returns(1, "empty_list")
    ELSE IF http.body # "json"
    THEN IF build = "json_error_is_request_exception"
         THEN Returns(1, "empty_list")
         ELSE Raises(1, "JSONDecodeError", <<"str(e)">>)
    ELSE Returns(1, "list")

\* chinchin_api.py:633-652 (the wrapper get_tools registers)
get_venue_reservations_wrapper(http, build) ==
    IF get_venue_reservations(http, build).raised
    THEN Returns(get_venue_reservations(http, build).requests, "empty_list")
    ELSE get_venue_reservations(http, build)

\* a reservation that is tried a second time when the POST fails
make_reservation_retry(http, build) ==
    IF RaisesRequestException(http) THEN Returns(2, "error_dict")
    ELSE Returns(1, "dict")

\* what the reservation backend may do with the POST: as Upstream, and an
\* error status may carry a JSON body whose detail says that the venue
\* does not accept reservations, or says something else
ReservationUpstream ==
    Upstream
    \cup {[status |-> st, body |-> b, data |-> <<>>] :
             st \in UpstreamErrors, b \in {"detail_declined", "detail_other"}}

\* requests.Response.__bool__ is Response.ok: a response is truthy only
\* when its status is below 400.  An exception without a response
\* (transport failure, JSON decoding) has response None.
ResponseIsTruthy(http, raised_by) ==
    raised_by = "raise_for_status" /\ ~IsErrorStatus(http)

\* chinchin_api.py:438-447: the error text of the returned dict.  Line
\* 438 enters the detail branch only for a truthy response.
ReservationError(http, raised_by) ==
    IF ResponseIsTruthy(http, raised_by)
    THEN IF http.body = "detail_declined" THEN "venue_does_not_accept"
         ELSE IF http.body = "detail_other" THEN "detail"
         ELSE "str(e)"
    ELSE "str(e)"

\* a dict {"error": text}
ErrorDict(requests, text) == [Returns(requests, "error_dict") EXCEPT !.msg = <<text>>]

\* chinchin_api.py:399-447.  The response of an HTTPError is falsy (its
\* status is 4xx or 5xx), so line 438 never enters the detail branch and
\* every RequestException ends in {"error": str(e)}.
make_reservation(http, build) ==
    IF http.status = 0 THEN ErrorDict(1, ReservationError(http, "requests.post"))
    ELSE IF IsErrorStatus(http)
    THEN ErrorDict(1, ReservationError(http, "raise_for_status"))
    ELSE IF http.body # "json"
    THEN IF build = "json_error_is_request_exception"
         THEN ErrorDict(1, ReservationError(http, "response.json"))
         ELSE Raises(1, "JSONDecodeError", <<"str(e)">>)
    ELSE Returns(1, "dict")

\* chinchin_api.py:598-631 (the wrapper get_tools registers): an error
\* dict becomes a ValueError; every exception is logged and re-raised
make_reservation_wrapper(http, build) ==
    IF make_reservation(http, build).raised THEN make_reservation(http, build)
    ELSE IF make_reservation(http, build).kind = "error_dict"
    THEN Raises(make_reservation(http, build).requests, "ValueError",
                <<"Reservation failed">> \o make_reservation(http, build).msg)
    ELSE make_reservation(http, build)

\* chinchin_api.py:481-522
update_reservation(http, build) ==
    IF RaisesRequestException(http) THEN Returns(1, "error_dict")
    ELSE IF http.body # "json"
    THEN IF build = "json_error_is_request_exception"
         THEN Returns(1, "error_dict")
         ELSE Raises(1, "JSONDecodeError", <<"str(e)">>)
    ELSE Returns(1, "dict")

\* chinchin_api.py:654-676 (the wrapper get_tools registers): the error
\* dict is returned as it is; an exception becomes None
update_reservation_wrapper(http, build) ==
    IF update_reservation(http, build).raised
    THEN Returns(update_reservation(http, build).requests, "None")
    ELSE update_reservation(http, build)

\* chinchin_api.py:553-571: the body of the answer is not read
cancel_reservation(http) ==
    IF RaisesRequestException(http) THEN Returns(1, "False")
    ELSE Returns(1, "True")

\* chinchin_api.py:573-587 (the static wrapper get_tools registers)
cancel_reservation_wrapper(http) ==
    IF cancel_reservation(http).raised
    THEN Returns(cancel_reservation(http).requests, "False")
    ELSE cancel_reservation(http)

\* chinchin_api.py:692-863: the names of the registered tools
VenueTools ==
    {"search_venues_by_occasion", "search_venues_by_name",
     "get_occasion_suggestions", "get_venue_menu", "search_menu_items",
     "get_menu_stats", "get_price_aggregations", "make_reservation",
     "get_venue_reservations", "update_reservation", "cancel_reservation"}

\* the function each registered name is bound to.  occasion_type is read
\* by search_venues_by_occasion only.
venue_tool(name, occasion_type, http, build) ==
    CASE name = "search_venues_by_occasion" ->
            search_venues_by_occasion(occasion_type, http)
      [] name = "search_venues_by_name" ->
            [requests |-> search_venues_by_name(VistaJardins, http).requests,
             raised |-> search_venues_by_name(VistaJardins, http).raised,
             exc |-> "none", msg |-> <<>>,
             kind |-> IF search_venues_by_name(VistaJardins, http).venues = <<>>
                      THEN "empty_list" ELSE "list"]
      [] name = "get_occasion_suggestions" -> get_occasion_suggestions(http)
      [] name = "get_venue_menu" -> get_venue_menu(http)
      [] name = "search_menu_items" -> search_menu_items(http)
      [] name = "get_menu_stats" -> get_menu_stats(http)
      [] name = "get_price_aggregations" -> get_price_aggregations(http)
      [] name = "make_reservation" -> make_reservation_wrapper(http, build)
      [] name = "get_venue_reservations" -> get_venue_reservations_wrapper(http, build)
      [] name = "update_reservation" -> update_reservation_wrapper(http, build)
      [] name = "cancel_reservation" -> cancel_reservation_wrapper(http)

\* one invocation of a tool as the state records it.  arg is the
\* location_id of a reviews call or the occasion_type of an occasion
\* search, data the records the reviews endpoint delivered, target what
\* the request path of an occasion search ended in, resp the
\* TripAdvisorResponse returned and log what was logged.
Invocation(tool, arg, keySet, http, r, resp, log) ==
    [tool |-> tool, arg |-> arg, keySet |-> keySet, status |-> http.status,
     body |-> http.body, data |-> http.data, target |-> <<>>,
     requests |-> r.requests, raised |-> r.raised, exc |-> r.exc,
     msg |-> r.msg, kind |-> r.kind, resp |-> resp, log |-> log]

NoInvocation ==
    Invocation("none", <<>>, TRUE, NoAnswer, Returns(0, "none"), <<>>, "none")

InitAdapters ==
    /\ bingKey \in BOOLEAN
    /\ lastTool = NoInvocation

(***************************************************************************)
(* The chat engine factory (engine.py, tools/query_engine.py).  A tool is  *)
(* its name; a tool list is a sequence of names.                           *)
(***************************************************************************)
\* a query tool that is built whether or not there is an index
get_general_query_tool_noCheck(index) == <<"general_query">>

\* query_engine.py:97-121: Optional; no tool when get_index returned None
get_general_query_tool(index) ==
    IF index = <<>> THEN <<>> ELSE <<"general_query">>

\* bing_search.py:74-97
get_bing_tools == <<"bing_search">>

\* tripadvisor.py:166-185
get_tripadvisor_tools == <<"get_tripadvisor_reviews">>

\* chinchin_api.py:692-863, in the order of the returned list
get_chinchin_tools ==
    <<"search_venues_by_occasion", "search_venues_by_name",
      "get_occasion_suggestions", "get_venue_menu", "search_menu_items",
      "get_menu_stats", "get_price_aggregations", "make_reservation",
      "get_venue_reservations", "update_reservation", "cancel_reservation">>

\* query_engine.py:124-144: the venue query tool is disabled (lines
\* 128-131); the general tool is added when there is one
get_all_query_tools(index) ==
    get_general_query_tool(index) \o get_bing_tools \o get_tripadvisor_tools

\* what ToolFactory.from_env() may deliver (engine.py:65): the tools the
\* deployment configures besides the built-in ones
ConfiguredTools == {<<>>, <<"configured_tool">>}

\* engine.py:42-74: the tools handed to AgentRunner.from_llm
get_chat_engine(index, configured_tools) ==
    get_all_query_tools(index) \o get_tripadvisor_tools \o get_chinchin_tools
        \o configured_tools

NoEngine ==
    [ran |-> FALSE, storage_existed |-> FALSE, venue_existed |-> FALSE,
     raised |-> FALSE, tools |-> <<>>]

InitEngine == lastEngine = NoEngine

(***************************************************************************)
(* The menu extraction (menu_processor.py).  A URL is a record of its      *)
(* scheme, its netloc and the number of the page it names.  The web is     *)
(* two restaurant sites: "a", a chain of SitePages pages, and "b", three   *)
(* pages that link to each other.  Every page also links to the other      *)
(* site, and the home pages carry a mailto link.                           *)
(***************************************************************************)
\* menu_processor.py:76: the crawl stops when this many URLs are visited
MaxVisited == 50

Url(netloc, page) == [scheme |-> "https", netloc |-> netloc, page |-> page]

Mailto == [scheme |-> "mailto", netloc |-> "", page |-> 0]

\* the hrefs of the <a> tags of a page (what soup.find_all yields at
\* menu_processor.py:57), already joined with the base URL (line 63)
Hrefs(url) ==
    IF url.netloc = "a"
    THEN {Url("a", 0), Url("b", 0)}
         \cup (IF url.page + 1 < SitePages THEN {Url("a", url.page + 1)} ELSE {})
         \cup (IF url.page = 0 THEN {Mailto} ELSE {})
    ELSE IF url.netloc = "b"
    THEN CASE url.page = 0 -> {Url("b", 1), Url("b", 2), Url("a", 0), Mailto}
           [] url.page = 1 -> {Url("b", 0), Url("b", 2), Url("a", 1)}
           [] OTHER -> {Url("b", 1)}
    ELSE {}

\* menu_processor.py:38-42
_is_same_domain(url1, url2) == url1.netloc = url2.netloc

\* menu_processor.py:44-52: pages 1 and 2 of each site have a menu keyword
\* in their URL, the other pages have none
_is_menu_related(url) == url.page \in {1, 2}

\* menu_processor.py:54-69: the links of a page that are kept
_extract_links(hrefs, base_url) ==
    {h \in hrefs : h.scheme # "mailto" /\ _is_same_domain(base_url, h)}

\* what requests.get (menu_processor.py:88) may do with a URL: answer 200,
\* answer another status, or raise
FetchOutcomes == {"ok", "not_200", "raises"}

\* a loop condition without the limit on visited_urls
CrawlContinues_unlimited(pending, visited) == pending # {}

\* menu_processor.py:76: the condition of the crawl loop
CrawlContinues(pending, visited) ==
    pending # {} /\ Cardinality(visited) < MaxVisited

\* menu_processor.py:77-111: one pass of the loop body for the popped url
\* and the outcome of its fetch; the new visited_urls, to_visit and
\* menu_pages, and the URL requested (Optional)
CrawlPass(url, outcome, base_url, visited, pending, pages) ==
    IF url \in visited
    THEN [visited |-> visited, to_visit |-> pending \ {url}, menu_pages |-> pages,
          fetched |-> <<>>]
    ELSE IF outcome = "raises"
    THEN [visited |-> visited, to_visit |-> pending \ {url}, menu_pages |-> pages,
          fetched |-> <<url>>]
    ELSE IF outcome = "not_200"
    THEN [visited |-> visited \cup {url}, to_visit |-> pending \ {url},
          menu_pages |-> pages, fetched |-> <<url>>]
    ELSE [visited |-> visited \cup {url},
          to_visit |-> (pending \ {url})
                       \cup {link \in _extract_links(Hrefs(url), base_url) :
                               link \notin visited \cup {url}},
          menu_pages |-> IF _is_menu_related(url) THEN Append(pages, url) ELSE pages,
          fetched |-> <<url>>]

\* a restaurant of the input: its name, its url, and whether the url is a
\* string (a JSON list in its place is not hashable, and line 74 raises)
Restaurant(name, url, url_is_str) ==
    [name |-> name, url |-> url, url_is_str |-> url_is_str]

Restaurants ==
    {Restaurant("A", Url("a", 0), TRUE), Restaurant("B", Url("b", 0), TRUE),
     Restaurant("X", Url("x", 0), FALSE)}

RestaurantLists ==
    UNION {[1..n -> Restaurants] : n \in 1..MaxRestaurants}

\* the callers of process_website that create one MenuProcessor for the
\* whole list: the module-level process_menus (menu_processor.py:313-335)
\* and main (343-378)
Entries == {"process_menus", "main"}

\* menu_processor.py:214: the list process_website returns; pages are the
\* menu pages the crawl found, menus those the extraction succeeded for
\* (lines 124-212 skip a page whose processing raises), all_ok tells that
\* every fetch of the crawl answered 200
MenuList(name, pages, menus, all_ok) ==
    [name |-> name, kind |-> "list", pages |-> pages, menus |-> menus,
     all_ok |-> all_ok]

\* menu_processor.py:216-224: the dict returned when an exception leaves
\* the crawl
ErrorResult(name) ==
    [name |-> name, kind |-> "error_dict", pages |-> <<>>, menus |-> {},
     all_ok |-> TRUE]

\* menu_processor.py:330-333: {**restaurant, **result} needs a mapping; a
\* list raises TypeError
MergeRaises(result) == result.kind = "list"

\* a dict assignment results[name] = value
Put(results, value) ==
    IF \E k \in 1..Len(results) : results[k].name = value.name
    THEN [k \in 1..Len(results) |->
             IF results[k].name = value.name THEN value ELSE results[k]]
    ELSE Append(results, value)

\* what the caller does with the result of process_website: process_menus
\* stores the merged dict under the name (lines 330-333), main appends the
\* result (line 372)
Store(entry, results, result) ==
    IF entry = "process_menus"
    THEN IF MergeRaises(result)
         THEN [raised |-> TRUE, results |-> results]
         ELSE [raised |-> FALSE, results |-> Put(results, result)]
    ELSE [raised |-> FALSE, results |-> Append(results, result)]

\* the run as the state records it: pc is "idle" before the run, "next"
\* between two restaurants, "crawl" inside _crawl_website, "done" after
\* the run returned or raised; i is the restaurant in work; fetched is
\* the URL the last pass of the crawl requested; all_ok tells that every
\* fetch of the running crawl answered 200
MenuRun(entry, restaurants, i, pc, results, raised, fetched, all_ok) ==
    [entry |-> entry, restaurants |-> restaurants, i |-> i, pc |-> pc,
     results |-> results, raised |-> raised, fetched |-> fetched,
     all_ok |-> all_ok]

InitMenu ==
    /\ visited_urls = {}
    /\ to_visit = {}
    /\ menu_pages = <<>>
    /\ menuRun = MenuRun("none", <<>>, 0, "idle", <<>>, FALSE, <<>>, TRUE)

Init == InitReviews /\ InitIndex /\ InitBuild /\ InitLoader /\ InitAdapters
        /\ InitEngine /\ InitMenu

(***************************************************************************)
(* Operations of the index store and of the build                          *)
(***************************************************************************)
\* a call of get_index (index.py:34-51)
GetIndex ==
    \E index_type \in IndexTypes :
        LET storage_dir == get_storage_path(index_type, storageDir)
            r == get_index(cache, index_type, storageDir, disk, loads, now)
        IN  /\ cache' = r.cache
            /\ loads' = RecordLoad(loads, storage_dir, r, now)
            /\ lastIndex' = IndexOp("get_index", storage_dir, now,
                                    disk[storage_dir] # <<>>,
                                    loads[storage_dir], r.loaded, r.raised,
                                    r.value)
            /\ UNCHANGED <<storageDir, now, disk>>
            /\ UNCHANGED <<reviewVars, buildVars>>
            /\ UNCHANGED otherVars

\* the document lists handed to generate_index while the store is served
IndexBatches == {<<LoaderDoc(1, "row")>>,
                 <<LoaderDoc(1, "row"), LoaderDoc(2, "text")>>}

\* generate.py:23-46, called for one type
GenerateIndex ==
    \E index_type \in IndexTypes, docs \in IndexBatches :
        /\ disk' = generate_index(disk, docs, index_type, storageDir)
        /\ lastIndex' = IndexOp("generate_index",
                                get_storage_path(index_type, storageDir), now,
                                disk[get_storage_path(index_type, storageDir)] # <<>>,
                                loads[get_storage_path(index_type, storageDir)],
                                FALSE, FALSE, <<>>)
        /\ UNCHANGED <<storageDir, now, cache, loads>>
        /\ UNCHANGED <<reviewVars, buildVars>>
        /\ UNCHANGED otherVars

\* the timer advances
Tick(limit) ==
    /\ now + TimeStep <= limit
    /\ now' = now + TimeStep
    /\ UNCHANGED <<storageDir, cache, disk, loads, lastIndex>>
    /\ UNCHANGED <<reviewVars, buildVars>>
    /\ UNCHANGED otherVars

TickIndex == Tick(MaxTime)

TickCache == Tick(MaxCacheTime)

\* a direct call of get_storage_context (index.py:54-59) with any
\* persist_dir.  Directories are interchangeable, so a directory is named
\* for the first time in the order of the numbering; the first directory
\* is the one named again and again.
GetStorageContext ==
    \E n \in 1..NumDirs :
        LET persist_dir == CacheDir(n)
            r == get_storage_context(cache, persist_dir, disk, loads, now)
        IN  /\ \/ n = 1
               \/ /\ loads[persist_dir] = <<>>
                  /\ \A m \in 1..(n - 1) : loads[CacheDir(m)] # <<>>
            /\ cache' = r.cache
            /\ loads' = RecordLoad(loads, persist_dir, r, now)
            /\ lastIndex' = IndexOp("get_storage_context", persist_dir, now,
                                    TRUE, loads[persist_dir], r.loaded,
                                    r.raised, r.value)
            /\ UNCHANGED <<storageDir, now, disk>>
            /\ UNCHANGED <<reviewVars, buildVars>>
            /\ UNCHANGED otherVars

\* generate.py:49-68 with the documents get_documents() delivers
GenerateDatasource ==
    \E docs \in LoaderOutputs, index_type \in {<<>>, <<"venue">>, <<"general">>} :
        /\ disk' = generate_datasource(disk, docs, index_type, storageDir)
        /\ documents' = DocsAfter(docs, index_type)
        /\ lastBuild' = [ran |-> TRUE, index_type |-> index_type,
                         loaded |-> docs,
                         built |-> BuiltTypes(docs, index_type)]
        /\ UNCHANGED <<storageDir, now, cache, loads, lastIndex>>
        /\ UNCHANGED reviewVars
        /\ UNCHANGED otherVars

\* a file is put into DATA_DIR, before the loader runs
AddFile ==
    /\ Len(dataDir) < MaxFiles
    /\ lastLoad.op = "none"
    /\ \E file \in FilesAt(Len(dataDir) + 1) : dataDir' = Append(dataDir, file)
    /\ UNCHANGED lastLoad
    /\ UNCHANGED <<reviewVars, indexVars, buildVars, adapterVars, engineVars,
                   menuVars>>

\* a call of process_csv_file on one CSV file (csv_loader.py:11-81)
ProcessCsvFile ==
    \E i \in 1..Len(dataDir) :
        /\ dataDir[i].ext = "csv"
        /\ lastLoad' = [op |-> "process_csv_file", input |-> <<dataDir[i]>>,
                        raised |-> process_csv_file(dataDir[i]).raised,
                        documents |->
                            IF process_csv_file(dataDir[i]).raised THEN <<>>
                            ELSE process_csv_file(dataDir[i]).documents]
        /\ UNCHANGED dataDir
        /\ UNCHANGED <<reviewVars, indexVars, buildVars, adapterVars, engineVars,
                   menuVars>>

\* a call of get_file_documents (file.py:38-81)
GetFileDocuments ==
    /\ lastLoad' = [op |-> "get_file_documents", input |-> dataDir,
                    raised |-> get_file_documents(dataDir).raised,
                    documents |-> get_file_documents(dataDir).documents]
    /\ UNCHANGED dataDir
    /\ UNCHANGED <<reviewVars, indexVars, buildVars, adapterVars, engineVars,
                   menuVars>>

\* the reviews tool is invoked (tripadvisor.py:166-185); the endpoint
\* answers only when a request reaches it
ReviewsTool ==
    \E location_id \in LocationIds :
      \E http \in IF get_tripadvisor_reviews(location_id, apiKey, NoAnswer).requests = 0
                  THEN {NoAnswer} ELSE ReviewsHttp :
        LET o == get_tripadvisor_reviews(location_id, apiKey, http)
        IN  /\ lastTool' = Invocation("get_tripadvisor_reviews", location_id,
                                      apiKey, http,
                                      Returns(o.requests, "response"),
                                      o.resp, o.log)
            /\ UNCHANGED bingKey
            /\ UNCHANGED <<reviewVars, indexVars, buildVars, loaderVars, engineVars,
                   menuVars>>

\* the web search tool is invoked (bing_search.py:74-97)
BingTool ==
    \E http \in IF bing_search(bingKey, NoAnswer, "json_error_is_value_error").requests = 0
                THEN {NoAnswer} ELSE Upstream :
      \E build \in RequestsBuilds :
        /\ lastTool' = Invocation("bing_search", <<>>, bingKey, http,
                                  bing_search(bingKey, http, build), <<>>, "none")
        /\ UNCHANGED bingKey
        /\ UNCHANGED <<reviewVars, indexVars, buildVars, loaderVars, engineVars,
                   menuVars>>

\* a venue-management tool is invoked (chinchin_api.py:590-863)
VenueTool ==
    \E name \in VenueTools, build \in RequestsBuilds :
     \E occasion_type \in IF name = "search_venues_by_occasion"
                          THEN OccasionInputs ELSE {""} :
      \E http \in IF venue_tool(name, occasion_type, NoAnswer, build).requests = 0
                  THEN {NoAnswer}
                  ELSE IF name = "make_reservation" THEN ReservationUpstream
                  ELSE Upstream :
        /\ lastTool' =
              [Invocation(name,
                          IF name = "search_venues_by_occasion"
                          THEN <<occasion_type>> ELSE <<>>,
                          TRUE, http,
                          venue_tool(name, occasion_type, http, build),
                          <<>>, "none")
               EXCEPT !.target =
                   IF name = "search_venues_by_occasion"
                      /\ venue_tool(name, occasion_type, http, build).requests > 0
                   THEN OccasionRequested(occasion_type) ELSE <<>>]
        /\ UNCHANGED bingKey
        /\ UNCHANGED <<reviewVars, indexVars, buildVars, loaderVars, engineVars,
                   menuVars>>

\* a call of get_chat_engine (engine.py:15-74): get_index for the general
\* index (query_engine.py:102-103), then the tool list and the agent.  An
\* exception of get_index leaves get_chat_engine.
GetChatEngine ==
    \E configured_tools \in ConfiguredTools :
        LET storage_dir == get_storage_path("general", storageDir)
            r == get_index(cache, "general", storageDir, disk, loads, now)
        IN  /\ cache' = r.cache
            /\ loads' = RecordLoad(loads, storage_dir, r, now)
            /\ lastIndex' = IndexOp("get_index", storage_dir, now,
                                    disk[storage_dir] # <<>>,
                                    loads[storage_dir], r.loaded, r.raised,
                                    r.value)
            /\ lastEngine' =
                  [ran |-> TRUE, storage_existed |-> disk[storage_dir] # <<>>,
                   venue_existed |->
                       disk[get_storage_path("venue", storageDir)] # <<>>,
                   raised |-> r.raised,
                   tools |-> IF r.raised THEN <<>>
                             ELSE get_chat_engine(r.value, configured_tools)]
            /\ UNCHANGED <<storageDir, now, disk>>
            /\ UNCHANGED <<reviewVars, buildVars, loaderVars, adapterVars,
                           menuVars>>

NextIndex == GetIndex \/ GenerateIndex \/ TickIndex

NextCache == GetStorageContext \/ TickCache

NextBuild == GenerateDatasource

NextLoader == AddFile \/ ProcessCsvFile \/ GetFileDocuments

NextAdapters == ReviewsTool \/ BingTool \/ VenueTool

NextEngine == GetChatEngine \/ GenerateIndex

\* the sequence as a set
RangeOf(seq) == {seq[k] : k \in 1..Len(seq)}

\* process_menus or main is called: a MenuProcessor is created
\* (menu_processor.py:324, 360; __init__ line 32)
StartRun ==
    /\ menuRun.pc = "idle"
    /\ \E entry \in Entries, restaurants \in RestaurantLists :
          menuRun' = MenuRun(entry, restaurants, 1, "next", <<>>, FALSE, <<>>, TRUE)
    /\ visited_urls' = {}
    /\ UNCHANGED <<to_visit, menu_pages>>
    /\ UNCHANGED <<reviewVars, indexVars, buildVars, loaderVars, adapterVars,
                   engineVars>>

\* process_website is called for the next restaurant and enters
\* _crawl_website (menu_processor.py:117-119, 73-74); a url that is not
\* hashable raises at line 74 and process_website returns the error dict
ProcessWebsite ==
    /\ menuRun.pc = "next"
    /\ menuRun.i <= Len(menuRun.restaurants)
    /\ LET restaurant == menuRun.restaurants[menuRun.i]
           stored == Store(menuRun.entry, menuRun.results,
                           ErrorResult(restaurant.name))
       IN  IF restaurant.url_is_str
           THEN /\ to_visit' = {restaurant.url}
                /\ menu_pages' = <<>>
                /\ menuRun' = [menuRun EXCEPT !.pc = "crawl", !.fetched = <<>>,
                                              !.all_ok = TRUE]
           ELSE /\ menuRun' = [menuRun EXCEPT !.i = @ + 1,
                                              !.results = stored.results]
                /\ UNCHANGED <<to_visit, menu_pages>>
    /\ UNCHANGED visited_urls
    /\ UNCHANGED <<reviewVars, indexVars, buildVars, loaderVars, adapterVars,
                   engineVars>>

\* one pass of the crawl loop (menu_processor.py:76-111); set.pop takes
\* any element
CrawlStep ==
    /\ menuRun.pc = "crawl"
    /\ CrawlContinues(to_visit, visited_urls)
    /\ \E url \in to_visit :
         \E outcome \in IF url \in visited_urls THEN {"ok"} ELSE FetchOutcomes :
            LET pass == CrawlPass(url, outcome, menuRun.restaurants[menuRun.i].url,
                                  visited_urls, to_visit, menu_pages)
            IN  /\ visited_urls' = pass.visited
                /\ to_visit' = pass.to_visit
                /\ menu_pages' = pass.menu_pages
                /\ menuRun' = [menuRun EXCEPT !.fetched = pass.fetched,
                                              !.all_ok = @ /\ outcome = "ok"]
    /\ UNCHANGED <<reviewVars, indexVars, buildVars, loaderVars, adapterVars,
                   engineVars>>

\* the crawl loop ends, process_website extracts the menus of the pages
\* and returns its list (menu_processor.py:113, 120-214), and the caller
\* stores it
ReturnMenus ==
    /\ menuRun.pc = "crawl"
    /\ ~CrawlContinues(to_visit, visited_urls)
    /\ \E menus \in SUBSET RangeOf(menu_pages) :
          LET stored == Store(menuRun.entry, menuRun.results,
                              MenuList(menuRun.restaurants[menuRun.i].name,
                                       menu_pages, menus, menuRun.all_ok))
          IN  menuRun' = [menuRun EXCEPT
                             !.pc = IF stored.raised THEN "done" ELSE "next",
                             !.i = IF stored.raised THEN @ ELSE @ + 1,
                             !.raised = stored.raised,
                             !.results = stored.results,
                             !.fetched = <<>>]
    /\ to_visit' = {}
    /\ menu_pages' = <<>>
    /\ UNCHANGED visited_urls
    /\ UNCHANGED <<reviewVars, indexVars, buildVars, loaderVars, adapterVars,
                   engineVars>>

\* the loop over the restaurants is through: the run returns its results
\* (menu_processor.py:335, 374-378)
ReturnResults ==
    /\ menuRun.pc = "next"
    /\ menuRun.i > Len(menuRun.restaurants)
    /\ menuRun' = [menuRun EXCEPT !.pc = "done"]
    /\ UNCHANGED <<visited_urls, to_visit, menu_pages>>
    /\ UNCHANGED <<reviewVars, indexVars, buildVars, loaderVars, adapterVars,
                   engineVars>>

NextMenu == StartRun \/ ProcessWebsite \/ CrawlStep \/ ReturnMenus \/ ReturnResults

Next == NextReviews \/ NextIndex \/ NextCache \/ NextBuild \/ NextLoader
        \/ NextAdapters \/ NextEngine \/ NextMenu

\* The groups of operations share no state, so each is checked under its
\* own specification.
Spec == Init /\ [][Next]_vars

\* the tool calls of an agent; STORAGE_DIR plays no part
InitOfReviews == Init /\ storageDir = <<>> /\ bingKey
SpecReviews == InitOfReviews /\ [][NextReviews]_vars

\* the index store serving get_index while generate_index rebuilds
InitOfIndex == Init /\ apiKey /\ bingKey
SpecIndex == InitOfIndex /\ [][NextIndex]_vars

\* direct calls of get_storage_context with any persist_dir
InitOfCache == Init /\ apiKey /\ storageDir = <<>> /\ bingKey
SpecCache == InitOfCache /\ [][NextCache]_vars

\* the offline build
InitOfBuild == Init /\ apiKey /\ bingKey
SpecBuild == InitOfBuild /\ [][NextBuild]_vars

\* the loader reading a data directory
InitOfLoader == Init /\ apiKey /\ storageDir = <<>> /\ bingKey
SpecLoader == InitOfLoader /\ [][NextLoader]_vars

\* the adapter tools invoked one after another
InitOfAdapters == Init /\ storageDir = <<>>
SpecAdapters == InitOfAdapters /\ [][NextAdapters]_vars

\* the chat engine built while generate_index writes the indices
InitOfEngine == Init /\ apiKey /\ bingKey
SpecEngine == InitOfEngine /\ [][NextEngine]_vars

\* one run of the menu extraction
InitOfMenu == Init /\ apiKey /\ storageDir = <<>> /\ bingKey
SpecMenu == InitOfMenu /\ [][NextMenu]_vars

\* the same, with a crawl loop that keeps running once it was entered
SpecCrawl == SpecMenu /\ WF_vars(CrawlStep) /\ WF_vars(ReturnMenus)

(***************************************************************************)
(* Claims about the reviews adapter (SpecReviews)                          *)
(***************************************************************************)
IsReviewsCall == lastCall.tool = "get_tripadvisor_reviews"

\* the response is the empty one: no reviews, rating 0, count 0, the
\* location_id echoed
ReturnsEmpty(call) ==
    /\ Len(call.resp) = 1
    /\ call.resp[1].location_id = call.arg
    /\ call.resp[1].reviews = <<>>
    /\ call.resp[1].average_rating = 0
    /\ call.resp[1].total_reviews = 0

\* C1: a reviews call with a malformed location_id (non-numeric, or numeric
\* with fewer than 5 or more than 10 digits) finishes without issuing an
\* HTTP request, whether or not TRIPADVISOR_API_KEY is set.
C1_MalformedIdIssuesNoRequest ==
    (IsReviewsCall /\ Malformed(lastCall.arg)) => lastCall.requests = 0

\* a too long numeric ID was passed while the API key is set
C1_Witness ==
    /\ IsReviewsCall /\ apiKey
    /\ WrongLength(lastCall.arg) /\ Len(lastCall.arg) > 10
    /\ lastCall.requests = 0

\* C2 as stated: a reviews call with a malformed location_id raises a
\* validation error to its caller instead of returning a response value.
C2_MalformedIdRaises ==
    (IsReviewsCall /\ Malformed(lastCall.arg)) =>
        (lastCall.raised /\ lastCall.resp = <<>>)

\* C2 amended: a reviews call with a malformed location_id does not raise;
\* it returns the empty response that echoes the location_id.
C2_MalformedIdReturnsEmpty ==
    (IsReviewsCall /\ Malformed(lastCall.arg)) =>
        (~lastCall.raised /\ ReturnsEmpty(lastCall))

\* a venue name was passed and the empty response came back
C2_Witness ==
    /\ IsReviewsCall /\ NonNumeric(lastCall.arg) /\ Len(lastCall.arg) > 5
    /\ ~lastCall.raised /\ ReturnsEmpty(lastCall)

BothRejectionsSeen ==
    rejections["non_numeric"] # <<>> /\ rejections["wrong_length"] # <<>>

\* what reaches the caller: whether the call raised, and the value returned
ToCaller(rep) == [raised |-> rep.raised, value |-> rep.value]

\* C3 as stated: what the adapter reports to its caller for a non-numeric
\* ID is distinguishable from what it reports for a numeric ID of the wrong
\* length.
C3_RejectionsDifferForCaller ==
    BothRejectionsSeen =>
        ToCaller(rejections["non_numeric"][1])
            # ToCaller(rejections["wrong_length"][1])

\* C3 amended: the two cases differ in the error message the adapter logs
\* and in nothing that reaches the caller: both return the same empty
\* response without raising.
C3_RejectionsDifferInLogOnly ==
    BothRejectionsSeen =>
        /\ rejections["non_numeric"][1].log # rejections["wrong_length"][1].log
        /\ ToCaller(rejections["non_numeric"][1])
               = ToCaller(rejections["wrong_length"][1])
        /\ ~rejections["non_numeric"][1].raised

\* a call of each kind has been made, the wrong-length one last
C3_Witness ==
    /\ BothRejectionsSeen
    /\ IsReviewsCall /\ WrongLength(lastCall.arg)

\* the call was turned away by the validation: no request, empty response
Rejected(call) ==
    /\ call.exit \in {"invalid_format", "invalid_length"}
    /\ call.requests = 0
    /\ ReturnsEmpty(call)

Succeeded(call) == call.exit = "success"

\* C4 as stated: a reviews call with the argument "Vista Jardins" is
\* rejected, and no reviews call succeeds unless an earlier
\* search_venues_by_name call resolved the ID it uses.
C4_ReviewsOnlyAfterResolve ==
    /\ (IsReviewsCall /\ lastCall.arg = VistaJardins) => Rejected(lastCall)
    /\ (IsReviewsCall /\ Succeeded(lastCall)) => lastCall.arg \in resolved

\* C4 amended: a reviews call with the argument "Vista Jardins" is
\* rejected, and a reviews call succeeds only with a numeric ID of 5 to 10
\* digits, whether or not an earlier search resolved that ID.
C4_ReviewsOnlyWithWellFormedId ==
    /\ (IsReviewsCall /\ lastCall.arg = VistaJardins) => Rejected(lastCall)
    /\ (IsReviewsCall /\ Succeeded(lastCall)) => ~Malformed(lastCall.arg)

\* a reviews call succeeded with an ID that no search had returned, after
\* a search that returned another ID
C4_Witness ==
    /\ IsReviewsCall /\ Succeeded(lastCall)
    /\ resolved # {} /\ lastCall.arg \notin resolved

(***************************************************************************)
(* Claims about the storage-context cache and the index store              *)
(***************************************************************************)
\* the operation obtained a storage context (get_index on an existing
\* directory, or get_storage_context itself)
ObtainedContext ==
    /\ lastIndex.op \in {"get_index", "get_storage_context"}
    /\ lastIndex.existed

InCache(c, e) == \E i \in 1..Len(c) : c[i] = e

\* the entries of c whose time is not up at t
Unexpired(c, t) == {i \in 1..Len(c) : t < c[i].expires}

\* C6 as stated: the cache never holds more than 20 entries, and an entry
\* leaves the cache only because its time-to-live has expired.
C6_LeavesOnlyByExpiry ==
    /\ [](Len(cache) <= 20)
    /\ [][\A i \in 1..Len(cache) :
             ~InCache(cache', cache[i]) => cache[i].expires <= now']_vars

\* C6 amended: the cache never holds more than 20 entries, and an entry
\* leaves the cache only because its time-to-live has expired or because a
\* new entry was stored while the cache held 20 unexpired entries, which
\* evicts the least recently used of them.
C6_LeavesByExpiryOrEviction ==
    /\ [](Len(cache) <= 20)
    /\ [][\A i \in 1..Len(cache) :
             ~InCache(cache', cache[i]) =>
                 \/ cache[i].expires <= now'
                 \/ /\ Cardinality(Unexpired(cache, now')) = 20
                    /\ \A j \in Unexpired(cache, now') : i <= j
                    /\ Len(cache') = 20
                    /\ ~InCache(cache, cache'[Len(cache')])]_vars

\* the cache is full and a directory loaded less than 300 s ago is no
\* longer in it
C6_Witness ==
    /\ Len(cache) = 20
    /\ \E d \in CacheDirs :
          /\ loads[d] # <<>>
          /\ now < loads[d][1].time + 300
          /\ ~HasKey(cache, CacheKey(d))

\* C7: generate_index leaves the cache as it is; a get_index made while the
\* context loaded before the rebuild is cached and unexpired is served that
\* context, with the documents it was loaded with; an entry leaves the cache
\* of the index store only by expiry.
C7_NoInvalidationOnWrite ==
    /\ [][disk' # disk => cache' = cache]_vars
    /\ []((lastIndex.op = "get_index" /\ lastIndex.existed
             /\ lastIndex.prior # <<>>
             /\ lastIndex.time < lastIndex.prior[1].time + 300)
          => /\ lastIndex.result # <<>>
             /\ lastIndex.result[1].docs = lastIndex.prior[1].value.docs)
    /\ [][\A i \in 1..Len(cache) :
             ~InCache(cache', cache[i]) => cache[i].expires <= now']_vars

\* get_index has just returned an index whose documents are not the ones
\* the directory holds now
C7_Witness ==
    /\ lastIndex.op = "get_index" /\ ~lastIndex.loaded
    /\ lastIndex.result # <<>>
    /\ disk[lastIndex.dir] # <<lastIndex.result[1].docs>>

\* C8: get_index for a type whose storage directory does not exist returns
\* None without raising, loads no storage context and adds no cache entry.
C8_AbsentIndexReturnsNone ==
    /\ []((lastIndex.op = "get_index" /\ ~lastIndex.existed)
          => (lastIndex.result = <<>> /\ ~lastIndex.raised
              /\ ~lastIndex.loaded))
    /\ [][(lastIndex'.op = "get_index" /\ ~lastIndex'.existed)
              => (cache' = cache /\ loads' = loads)]_vars

\* get_index found no directory for one type while the context of the
\* other type is cached
C8_Witness ==
    /\ lastIndex.op = "get_index" /\ ~lastIndex.existed
    /\ lastIndex.result = <<>>
    /\ Len(cache) = 1

(***************************************************************************)
(* Claims about the build (SpecBuild)                                      *)
(***************************************************************************)
Ids(docs) == {docs[i].id : i \in 1..Len(docs)}

IdsOfType(docs, types) == {docs[i].id : i \in {j \in 1..Len(docs) : docs[j].type \in types}}

Persisted(index_type) == disk[get_storage_path(index_type, storageDir)][1]

\* C9: when generate_datasource builds both indices, the venue index
\* receives exactly the documents tagged "row", the general index exactly
\* the others, and no document is in both.
C9_BothIndicesPartitionDocuments ==
    (lastBuild.ran /\ lastBuild.index_type = <<>>) =>
        /\ "venue" \in lastBuild.built =>
              Ids(Persisted("venue")) = IdsOfType(lastBuild.loaded, {"row"})
        /\ "general" \in lastBuild.built =>
              Ids(Persisted("general"))
                  = IdsOfType(lastBuild.loaded, DocTypes \ {"row"})
        /\ lastBuild.built = {"venue", "general"} =>
              Ids(Persisted("venue")) \cap Ids(Persisted("general")) = {}

\* both indices were built from a row and a document without a type
C9_Witness ==
    /\ lastBuild.ran /\ lastBuild.index_type = <<>>
    /\ lastBuild.built = {"venue", "general"}
    /\ \E i \in 1..Len(lastBuild.loaded) : lastBuild.loaded[i].type = "none"
    /\ Ids(Persisted("venue")) # {} /\ Ids(Persisted("general")) # {}

\* C10: a build requested for one index type persists into that type's
\* storage only the documents of the matching kind: row-tagged documents
\* for VENUE, the others for GENERAL.
C10_SingleTypeBuildKeepsMatchingKind ==
    /\ (lastBuild.ran /\ lastBuild.index_type = <<"venue">>) =>
          \A i \in 1..Len(Persisted("venue")) :
              Persisted("venue")[i].type = "row"
    /\ (lastBuild.ran /\ lastBuild.index_type = <<"general">>) =>
          \A i \in 1..Len(Persisted("general")) :
              Persisted("general")[i].type # "row"

(***************************************************************************)
(* Claims about the storage directories (SpecIndex)                        *)
(***************************************************************************)
OtherType(index_type) == IF index_type = "venue" THEN "general" ELSE "venue"

\* C11: for every value of STORAGE_DIR the two index types have distinct
\* storage directories, and a step that changes what is persisted changes
\* the directory of exactly one type, by a generate_index for that type,
\* and leaves the other type's persisted index and every other directory
\* as they were.
C11_GenerateIndexWritesOwnDirOnly ==
    [][/\ \A e \in StorageDirValues :
             get_storage_path("venue", e) # get_storage_path("general", e)
       /\ disk' # disk =>
             \E t \in IndexTypes :
                 LET own   == get_storage_path(t, storageDir)
                     other == get_storage_path(OtherType(t), storageDir)
                 IN  /\ lastIndex'.op = "generate_index"
                     /\ lastIndex'.dir = own
                     /\ other # own
                     /\ disk'[other] = disk[other]
                     /\ \A p \in AllDirs \ {own} : disk'[p] = disk[p]]_vars

\* generate_index has just written one type's directory while the other
\* type's directory holds a different persisted index
C11_Witness ==
    /\ lastIndex.op = "generate_index"
    /\ \E t \in IndexTypes :
          LET own   == get_storage_path(t, storageDir)
              other == get_storage_path(OtherType(t), storageDir)
          IN  /\ lastIndex.dir = own
              /\ disk[own] # <<>>
              /\ disk[other] # <<>>
              /\ disk[other] # disk[own]

(***************************************************************************)
(* Claims about the document loader (SpecLoader)                           *)
(***************************************************************************)
\* C12: when process_csv_file returns for a CSV file with N data lines, it
\* returns N Documents, the i-th for the i-th line, each with type "row"
\* and the file's base name as src, and the idx of each Document is
\* smaller than the idx of the next one.
C12_OneDocumentPerRowIdxIncreasing ==
    (lastLoad.op = "process_csv_file" /\ ~lastLoad.raised) =>
        LET file == lastLoad.input[1]
            docs == lastLoad.documents
        IN  /\ Len(docs) = Len(file.content.lines)
            /\ \A i \in 1..Len(docs) :
                  /\ docs[i].type = "row"
                  /\ docs[i].src = file.stem
                  /\ docs[i].idx # <<>>
            /\ \A i \in 1..(Len(docs) - 1) : docs[i].idx[1] < docs[i + 1].idx[1]

\* the files of the directory whose extraction fails
FailedFiles(dir) ==
    {i \in 1..Len(dir) :
        IF dir[i].ext = "csv" THEN process_csv_file(dir[i]).raised
        ELSE dir[i].extract # "ok"}

\* C13: when the extraction of a file of the data directory fails, be it
\* a CSV file or not, get_file_documents raises and delivers no document.
C13_AnyFailedFileFailsTheLoad ==
    (lastLoad.op = "get_file_documents" /\ FailedFiles(lastLoad.input) # {}) =>
        (lastLoad.raised /\ lastLoad.documents = <<>>)

(***************************************************************************)
(* Claims about the adapter tools (SpecAdapters)                           *)
(***************************************************************************)
IsReviewsTool == lastTool.tool = "get_tripadvisor_reviews"

\* what the caller of a tool gets from an invocation: the exception or the
\* returned value
CallerView(raised, exc, msg, kind, resp) ==
    [raised |-> raised, exc |-> exc, msg |-> msg, kind |-> kind, resp |-> resp]

ViewOf(inv) == CallerView(inv.raised, inv.exc, inv.msg, inv.kind, inv.resp)

\* what the caller of get_tripadvisor_reviews gets for an answer
ReviewsView(location_id, key, http) ==
    CallerView(get_tripadvisor_reviews(location_id, key, http).raised,
               "none", <<>>, "response",
               get_tripadvisor_reviews(location_id, key, http).resp)

ErrorAnswer(status) == [status |-> status, body |-> "error", data |-> <<>>]

\* C14 as claimed: what the caller of get_tripadvisor_reviews gets when
\* the endpoint answers 429, and what it gets when the endpoint answers
\* 401, differ from each other and from what it gets for a generic server
\* error (500): the classification reaches the caller.
C14_StatusClassReachesCaller ==
    (IsReviewsTool /\ lastTool.status \in {401, 429}) =>
        /\ ViewOf(lastTool)
               # ReviewsView(lastTool.arg, lastTool.keySet, ErrorAnswer(500))
        /\ ReviewsView(lastTool.arg, lastTool.keySet, ErrorAnswer(401))
               # ReviewsView(lastTool.arg, lastTool.keySet, ErrorAnswer(429))

\* C14 as amended: for a 429 answer the adapter logs the rate-limit
\* message and for a 401 answer the invalid-key message; the caller gets,
\* without an exception, the empty response for the location, the same as
\* for a generic server error.
C14_StatusClassIsLoggedOnly ==
    (IsReviewsTool /\ lastTool.status \in {401, 429}) =>
        /\ lastTool.log = (IF lastTool.status = 429 THEN "rate_limit" ELSE "auth")
        /\ ~lastTool.raised
        /\ lastTool.resp = <<EmptyResponse(lastTool.arg)>>
        /\ ViewOf(lastTool)
               = ReviewsView(lastTool.arg, lastTool.keySet, ErrorAnswer(500))

\* the endpoint has answered 429 to the request of a reviews call
C14_Witness ==
    /\ IsReviewsTool
    /\ lastTool.status = 429
    /\ lastTool.requests = 1
    /\ lastTool.log = "rate_limit"

\* an invocation whose one request got no answer at all
TransportFailure(inv) ==
    inv.tool # "none" /\ inv.requests = 1 /\ inv.status = 0

\* the exceptions an adapter raises on purpose, with a message of its own
AnnotatedExceptions == {"Exception", "ValueError"}

\* C15: an invocation of any adapter tool whose request gets no answer
\* (connection error, timeout) ends in a returned value or in an exception
\* the adapter words itself, never in another exception; for bing_search
\* it ends in the exception "Error performing Bing search: ...".
C15_TransportFailureEndsInAdapterError ==
    TransportFailure(lastTool) =>
        /\ lastTool.raised => lastTool.exc \in AnnotatedExceptions
        /\ lastTool.tool = "bing_search" =>
              /\ lastTool.raised
              /\ lastTool.exc = "Exception"
              /\ lastTool.msg # <<>>
              /\ lastTool.msg[1] = "Error performing Bing search"

\* an invocation of a key-dependent adapter that gets as far as looking
\* for its key (a malformed location_id is turned down before that) and
\* finds the environment variable unset
MissingKey(inv) ==
    /\ ~inv.keySet
    /\ \/ inv.tool = "bing_search"
       \/ inv.tool = "get_tripadvisor_reviews" /\ ~Malformed(inv.arg)

\* C16 as claimed: with its API key unset, bing_search and
\* get_tripadvisor_reviews each issue no HTTP request and fail the call
\* with a configuration error raised to the caller, not a returned value.
C16_MissingKeyFailsTheCall ==
    MissingKey(lastTool) =>
        /\ lastTool.requests = 0
        /\ lastTool.raised
        /\ lastTool.exc = "ValueError"

\* C16 as amended: with its API key unset, either adapter issues no HTTP
\* request; bing_search raises the ValueError that names BING_SEARCH_KEY,
\* while get_tripadvisor_reviews logs the configuration error and
\* returns, without raising, the empty response for the location.
C16_MissingKeyRaisesOrReturnsEmpty ==
    MissingKey(lastTool) =>
        /\ lastTool.requests = 0
        /\ lastTool.tool = "bing_search" =>
              /\ lastTool.raised
              /\ lastTool.exc = "ValueError"
              /\ lastTool.msg = <<"BING_SEARCH_KEY environment variable is not set">>
        /\ lastTool.tool = "get_tripadvisor_reviews" =>
              /\ ~lastTool.raised
              /\ lastTool.log = "config"
              /\ lastTool.resp = <<EmptyResponse(lastTool.arg)>>

\* the reviews tool was invoked with a well-formed ID and no API key
C16_Witness ==
    /\ IsReviewsTool
    /\ MissingKey(lastTool)
    /\ lastTool.log = "config"

\* an invocation of a venue-management tool whose request was answered
\* with a 4xx or 5xx status
UpstreamError(inv) ==
    inv.tool \in VenueTools /\ inv.requests = 1 /\ inv.status \in UpstreamErrors

\* the values that tell the caller of a failure or of nothing found
ErrorShaped == {"empty_list", "empty_dict", "False", "error_dict"}

\* C17 as claimed: when the upstream answers 4xx or 5xx, the call of any
\* registered venue-management tool does not raise and returns an empty
\* list, an empty dict, False or a dict with an error key.
C17_UpstreamErrorNeverRaises ==
    UpstreamError(lastTool) =>
        (~lastTool.raised /\ lastTool.kind \in ErrorShaped)

\* C17 as amended: when the upstream answers 4xx or 5xx, the call of every
\* registered venue-management tool except make_reservation does not
\* raise and returns an empty list, an empty dict, False or a dict with
\* an error key; the make_reservation tool raises the ValueError
\* "Reservation failed: ..." made from the error dict.
C17_OnlyMakeReservationRaises ==
    UpstreamError(lastTool) =>
        IF lastTool.tool = "make_reservation"
        THEN /\ lastTool.raised
             /\ lastTool.exc = "ValueError"
             /\ lastTool.msg # <<>>
             /\ lastTool.msg[1] = "Reservation failed"
        ELSE ~lastTool.raised /\ lastTool.kind \in ErrorShaped

\* the POST of a make_reservation call was answered with an error status
C17_Witness ==
    /\ lastTool.tool = "make_reservation"
    /\ UpstreamError(lastTool)
    /\ lastTool.raised

\* a reviews call that failed: the ID was turned down, the key is
\* missing, or the request got an error or no answer
FailedReviews(inv) ==
    inv.tool = "get_tripadvisor_reviews" /\ inv.log # "none"

\* a response without the location_id it echoes
Payload(resp) ==
    [reviews |-> resp.reviews, average_rating |-> resp.average_rating,
     total_reviews |-> resp.total_reviews]

\* the locations a call can succeed on
WellFormedIds == {id \in LocationIds : ~Malformed(id)}

\* C18 as claimed: the value a failed call of get_tripadvisor_reviews
\* returns differs from the value a successful call returns for a
\* location with zero reviews.
C18_FailureDiffersFromZeroReviews ==
    FailedReviews(lastTool) =>
        \A id \in WellFormedIds :
            lastTool.resp # <<SuccessResponse(id, <<>>)>>

\* C18 as amended: a failed call of get_tripadvisor_reviews returns,
\* without raising, a response with the same reviews, average_rating and
\* total_reviews as a successful call on a location with zero reviews;
\* for a well-formed ID it is exactly the value a successful call returns
\* when that location has zero reviews.
C18_FailureEqualsZeroReviews ==
    FailedReviews(lastTool) =>
        /\ ~lastTool.raised
        /\ Len(lastTool.resp) = 1
        /\ \A id \in WellFormedIds :
              Payload(lastTool.resp[1]) = Payload(SuccessResponse(id, <<>>))
        /\ ~Malformed(lastTool.arg) =>
              lastTool.resp = <<SuccessResponse(lastTool.arg, <<>>)>>

\* a reviews call whose request got no answer has returned what a
\* zero-review success returns
C18_Witness ==
    /\ FailedReviews(lastTool)
    /\ TransportFailure(lastTool)
    /\ lastTool.resp = <<SuccessResponse(lastTool.arg, <<>>)>>

\* the adapter tools: reviews, web search, venue management
AdapterTools == {"get_tripadvisor_reviews", "bing_search"} \cup VenueTools

\* C19: an invocation of an adapter tool issues no HTTP request or one,
\* whatever the upstream does; when the request fails (no answer, an
\* error status, a body that is not JSON) it is still the only one.
C19_AtMostOneRequest ==
    lastTool.tool \in AdapterTools =>
        lastTool.requests \in {0, 1}

\* the POST of a reservation was answered 503 and the call is over
C19_Witness ==
    /\ lastTool.tool = "make_reservation"
    /\ lastTool.status = 503
    /\ lastTool.requests = 1

(***************************************************************************)
(* Claims about the chat engine factory (SpecEngine)                       *)
(***************************************************************************)
Names(tools) == {tools[i] : i \in 1..Len(tools)}

\* the tools of the external adapters
ExternalTools ==
    Names(get_bing_tools) \cup Names(get_tripadvisor_tools)
        \cup Names(get_chinchin_tools)

\* C20: when the storage directory of the general index is absent,
\* get_chat_engine does not raise and assembles an agent whose tool list
\* has no general_query tool and has every external adapter tool.
C20_EngineWithoutGeneralIndex ==
    (lastEngine.ran /\ ~lastEngine.storage_existed) =>
        /\ ~lastEngine.raised
        /\ "general_query" \notin Names(lastEngine.tools)
        /\ ExternalTools \subseteq Names(lastEngine.tools)

\* the engine was built while the venue index was persisted and the
\* general index was not
C20_Witness ==
    /\ lastEngine.ran
    /\ ~lastEngine.storage_existed
    /\ disk[get_storage_path("general", storageDir)] = <<>>
    /\ disk[get_storage_path("venue", storageDir)] # <<>>
    /\ lastEngine.tools # <<>>

\* C21: the tool list get_chat_engine assembles has the general_query tool
\* when the general index is persisted and the venue_query tool when the
\* venue index is persisted.
C21_QueryToolPerPersistedIndex ==
    (lastEngine.ran /\ ~lastEngine.raised) =>
        /\ lastEngine.storage_existed =>
              "general_query" \in Names(lastEngine.tools)
        /\ lastEngine.venue_existed =>
              "venue_query" \in Names(lastEngine.tools)

\* C26: the tool list get_chat_engine hands to the agent has no name
\* twice, whichever indices are persisted.
C26_ToolNamesAreUnique ==
    (lastEngine.ran /\ ~lastEngine.raised) =>
        \A i, j \in 1..Len(lastEngine.tools) :
            lastEngine.tools[i] = lastEngine.tools[j] => i = j

(***************************************************************************)
(* Further claims about the build (SpecBuild)                              *)
(***************************************************************************)
\* C22 as claimed: after an index build the documents are what the loader
\* created.
C22_DocumentsUnchangedByBuild ==
    lastBuild.ran => documents = lastBuild.loaded

\* C22 as amended: after an index build every document is what the loader
\* created except for the metadata key "private", which generate_index
\* has set to "false"; nothing else of a document is changed and no
\* document is added or dropped.
C22_BuildOnlyMarksPublic ==
    lastBuild.ran =>
        /\ Len(documents) = Len(lastBuild.loaded)
        /\ \A i \in 1..Len(documents) :
              /\ lastBuild.loaded[i].private = "unset"
              /\ documents[i] = [lastBuild.loaded[i] EXCEPT !.private = "false"]

\* a build has run over a row and another document
C22_Witness ==
    /\ lastBuild.ran
    /\ Len(documents) > 1
    /\ \E i, j \in 1..Len(documents) :
          documents[i].type = "row" /\ documents[j].type # "row"
    /\ \A i \in 1..Len(documents) : documents[i].private = "false"

\* C28: a build of both indices (no index_type) whose documents hold no
\* row leaves the venue storage directory as it was, and one whose
\* documents are all rows leaves the general storage directory as it was.
C28_EmptyKindWritesNothing ==
    [][(lastBuild'.ran /\ lastBuild'.index_type = <<>>) =>
          /\ venue_docs(lastBuild'.loaded) = <<>> =>
                disk'[get_storage_path("venue", storageDir)]
                    = disk[get_storage_path("venue", storageDir)]
          /\ general_docs(lastBuild'.loaded) = <<>> =>
                disk'[get_storage_path("general", storageDir)]
                    = disk[get_storage_path("general", storageDir)]]_vars

\* after a build of both indices without a row, the venue directory still
\* holds the index of an earlier build
C28_Witness ==
    /\ lastBuild.ran /\ lastBuild.index_type = <<>>
    /\ lastBuild.loaded # <<>>
    /\ venue_docs(lastBuild.loaded) = <<>>
    /\ "venue" \notin lastBuild.built
    /\ disk[get_storage_path("venue", storageDir)] # <<>>
    /\ Persisted("venue") # <<>>

(***************************************************************************)
(* Further claims about the adapter tools (SpecAdapters)                   *)
(***************************************************************************)
\* the records of a "data" list that ReviewData accepts
ValidRecords(data) == {i \in 1..Len(data) : data[i].valid}

\* C27: every response get_tripadvisor_reviews returns has total_reviews
\* equal to the length of its reviews and average_rating 0 when it has no
\* reviews; when the endpoint delivers reviews, a record that does not
\* parse is left out and not counted, and the call still succeeds.
C27_ResponseCountsItsReviews ==
    IsReviewsTool =>
        /\ ~lastTool.raised
        /\ Len(lastTool.resp) = 1
        /\ lastTool.resp[1].total_reviews = Len(lastTool.resp[1].reviews)
        /\ lastTool.resp[1].reviews = <<>> => lastTool.resp[1].average_rating = 0
        /\ (lastTool.status = 200 /\ lastTool.body = "json") =>
              /\ lastTool.log = "none"
              /\ lastTool.resp[1].total_reviews
                    = Cardinality(ValidRecords(lastTool.data))

\* the endpoint delivered a record that parses and one that does not
C27_Witness ==
    /\ IsReviewsTool
    /\ lastTool.status = 200 /\ lastTool.body = "json"
    /\ Len(lastTool.data) = 2
    /\ Cardinality(ValidRecords(lastTool.data)) = 1
    /\ lastTool.resp[1].total_reviews = 1

\* the values and the member names of OccasionType
OccasionValues == {OccasionType[i].value : i \in DOMAIN OccasionType}
OccasionNames == {OccasionType[i].name : i \in DOMAIN OccasionType}

\* the value of the member called name
ValueOfName(name) ==
    OccasionType[CHOOSE i \in DOMAIN OccasionType : OccasionType[i].name = name].value

\* C24: search_venues_by_occasion given the value of an OccasionType
\* requests that value, given a member name requests that member's value,
\* and given any other string returns an empty list without a request.
C24_OccasionByValueOrName ==
    lastTool.tool = "search_venues_by_occasion" =>
        /\ Len(lastTool.arg) = 1
        /\ ~lastTool.raised
        /\ lastTool.arg[1] \in OccasionValues =>
              lastTool.requests = 1 /\ lastTool.target = lastTool.arg
        /\ lastTool.arg[1] \in OccasionNames =>
              /\ lastTool.requests = 1
              /\ lastTool.target = <<ValueOfName(lastTool.arg[1])>>
        /\ lastTool.arg[1] \notin OccasionValues \cup OccasionNames =>
              /\ lastTool.requests = 0
              /\ lastTool.target = <<>>
              /\ lastTool.kind = "empty_list"

\* a search by member name that was answered with venues
C24_Witness ==
    /\ lastTool.tool = "search_venues_by_occasion"
    /\ lastTool.arg = <<"DATE_NIGHT">>
    /\ lastTool.target = <<"Date Night / Romantic">>
    /\ lastTool.kind = "list"

\* the error text make_reservation returned, which the registered wrapper
\* puts behind "Reservation failed" (chinchin_api.py:626-627)
ReservationErrorText == lastTool.msg[2]

\* C23: when the backend answers the reservation POST with an error
\* status whose JSON detail says the venue does not accept reservations,
\* the returned error is the venue-specific message; for any other detail
\* it is the backend's detail.
C23_ErrorDetailReachesCaller ==
    (lastTool.tool = "make_reservation" /\ lastTool.status >= 400) =>
        /\ lastTool.body = "detail_declined" =>
              ReservationErrorText = "venue_does_not_accept"
        /\ lastTool.body = "detail_other" => ReservationErrorText = "detail"

(***************************************************************************)
(* Claims about the menu extraction (SpecMenu, SpecCrawl)                  *)
(***************************************************************************)
\* the names of a sequence of restaurants or of results
NamesOf(seq) == {seq[k].name : k \in 1..Len(seq)}

\* C25: the module-level process_menus returns a dict with one entry per
\* input restaurant name, whether processing the restaurant's website
\* succeeded (a list of menus) or failed (the error dict).
C25_OneEntryPerRestaurant ==
    (menuRun.entry = "process_menus" /\ menuRun.pc = "done") =>
        /\ ~menuRun.raised
        /\ NamesOf(menuRun.results) = NamesOf(menuRun.restaurants)

\* the URL the running crawl started from
BaseUrl == menuRun.restaurants[menuRun.i].url

\* the crawl requests the base URL or a same-domain link of a page it has
\* fetched, and visited_urls holds at most MaxVisited URLs
C29_CrawlStaysWithinLimits ==
    /\ Cardinality(visited_urls) <= MaxVisited
    /\ (menuRun.pc = "crawl" /\ menuRun.fetched # <<>>) =>
          \/ menuRun.fetched[1] = BaseUrl
          \/ /\ menuRun.fetched[1].netloc = BaseUrl.netloc
             /\ \E page \in visited_urls : menuRun.fetched[1] \in Hrefs(page)

\* C29: _crawl_website terminates whatever the fetches do, requests only
\* the base URL and same-domain links, and never lets visited_urls grow
\* beyond 50 URLs.
C29_CrawlTerminatesWithinLimits ==
    /\ []C29_CrawlStaysWithinLimits
    /\ (menuRun.pc = "crawl") ~> (menuRun.pc # "crawl")

\* the limit stopped a crawl that had URLs left to visit
C29_Witness ==
    /\ menuRun.pc = "crawl"
    /\ Cardinality(visited_urls) = MaxVisited
    /\ to_visit # {}

\* a crawl retried a URL whose first fetch had raised
C29_WitnessRetry ==
    /\ menuRun.pc = "crawl"
    /\ menuRun.fetched = <<Url("b", 1)>>
    /\ Url("b", 2) \in visited_urls
    /\ Url("b", 1) \notin visited_urls
    /\ to_visit = {}

\* the menu pages a new MenuProcessor finds from base_url when every fetch
\* answers 200: the menu-related pages of the site (on both sites they are
\* among the first MaxVisited pages the crawl reaches)
FreshPages(base_url) ==
    {Url(base_url.netloc, page) : page \in {1, 2}}

\* the first restaurant of a run is crawled by a new processor, and the
\* crawl finds FreshPages when every fetch answers 200
FirstCrawlFindsFreshPages ==
    (Len(menuRun.results) >= 1 /\ menuRun.results[1].kind = "list"
        /\ menuRun.results[1].all_ok) =>
        RangeOf(menuRun.results[1].pages) = FreshPages(menuRun.restaurants[1].url)

\* C30: the menu pages found for a restaurant are those a new processor
\* finds for it, whatever other restaurants the same processor crawled
\* before.
C30_PagesIndependentOfEarlierCrawls ==
    \A k \in 1..Len(menuRun.results) :
        (/\ menuRun.entry = "main"
         /\ menuRun.results[k].kind = "list"
         /\ menuRun.results[k].all_ok
         /\ \A j \in 1..(k - 1) : menuRun.restaurants[j] # menuRun.restaurants[k]) =>
            RangeOf(menuRun.results[k].pages)
                = FreshPages(menuRun.restaurants[k].url)

====
